---- MODULE Spec2Model ----
(***************************************************************************)
(* Model of the Craigslist text -> structured-record extractor, centred on *)
(* the per-run-state HTTP orchestrator src/obs/extractor_cron.py           *)
(* (extract_http) and the object store it reads and writes.                *)
(*                                                                         *)
(* Names are modelled by naturals whose order is the lexicographic order   *)
(* of the strings they stand for:                                          *)
(*   1..MaxRuns   timestamp-derived run ids ("20251017T185944Z", ...),     *)
(*                as produced by the scraper (src/main.py:233)             *)
(*   AdhocRun     a run id without any 8-12 digit run ("adhoc")            *)
(*   StateDir     the directory name "state" of STATE_PREFIX               *)
(* A source key <PREFIX>/<run>/txt/<item>.txt is the pair (run, item);     *)
(* inside one run it is identified by its item number, and list_blobs      *)
(* returns the keys of a run in ascending order.                           *)
(*                                                                         *)
(* Spec runs the invocations one after the other, ConcSpec lets two        *)
(* invocations overlap, LiveSpec repeats one request for ever under        *)
(* fairness, and FnSpec applies the pure functions to bounded inputs.      *)
(*                                                                         *)
(* Line 36 of src/obs/extractor_cron.py annotates _MODEL with a name that  *)
(* is only imported lazily; the model takes the functions as written.      *)
(***************************************************************************)
EXTENDS Integers, Sequences, FiniteSets, TLC

\* ------------------------------------------------------------------ bounds
MaxRuns == 1          \* timestamp-derived runs the scraper may have produced
MaxItems == 4         \* source items per run
MaxFiles == 2         \* largest max_files value a request carries
MaxInvocations == 2   \* invocations started in one behaviour
MaxPriceTokens == 2   \* tokens of a title or body given to price_fallback
MaxMileTokens == 3    \* tokens of a text given to the mileage resolution

\* --------------------------------------------------------------- constants
AdhocRun == 50        \* "adhoc": sorts after every timestamp, before "state"
StateDir == 90        \* "state"
None == 0             \* Python None / absent, for ids, years and prices
YearMin == 1950
YearMax == 2100
PriceMin == 0
MileageMin == 0
BandMin == 500
BandMax == 150000

Procs == {"A", "B"}

StampRuns == 1..MaxRuns
RunIds == StampRuns \cup {AdhocRun}
RunNames == RunIds \cup {StateDir}
Items == 1..MaxItems

\* ------------------------------------------------------- source item shapes
\* Three shapes of scraper text, repeated over the item numbers:
\*   shape 1: "URL: https://x/<id>.html" present, title year 2016
\*   shape 2: no URL line and no digit run in item name or text, no year
\*   shape 3: no URL line, the item file name carries the id, title year 1900
Shape(i) == ((i - 1) % 3) + 1

\* parse_txt: post_id from the URL's /<8-12 digits>.html segment
ParsedPostId(i) == IF Shape(i) = 1 THEN 100 + i ELSE None

\* parse_txt: year from the title (YEAR_RE accepts 1900..2099)
ParsedYear(i) == CASE Shape(i) = 1 -> 2016
                   [] Shape(i) = 2 -> None
                   [] OTHER -> 1900

\* parse_txt: price of the "Price:" line; shape 2 has none
ParsedPrice(i) == IF Shape(i) = 2 THEN None ELSE 9900

\* the 8-12 digit run of the item file name, of the url, of the text
ItemNameDigits(i) == IF Shape(i) = 3 THEN 100 + i ELSE None
UrlDigits(i) == IF Shape(i) = 1 THEN 100 + i ELSE None
TextDigits(i) == IF Shape(i) = 1 THEN 100 + i ELSE None

\* the first 8-12 digit run of a run id: "20251017" for a timestamp
RunDigits(r) == IF r \in StampRuns THEN 1000 + r ELSE None

\* FNAME_ID_RE.search(name) on the whole key <PREFIX>/<run>/txt/<item>.txt:
\* the leftmost digit run, so the run id segment is met before the item name
NameDigits(r, i) == IF RunDigits(r) # None THEN RunDigits(r) ELSE ItemNameDigits(i)

\* post_id_from_any(name, text, url): name, then url, then text
PostIdFromAny(r, i) ==
    IF NameDigits(r, i) # None THEN NameDigits(r, i)
    ELSE IF UrlDigits(i) # None THEN UrlDigits(i)
    ELSE TextDigits(i)

\* extract_http line 359
ResolvePostId(r, i) ==
    IF ParsedPostId(i) # None THEN ParsedPostId(i) ELSE PostIdFromAny(r, i)

\* ------------------------------------------------------ enrichment + merge
\* What model_extract_json contributes for an item; a failed call is the
\* empty map (line 371-373), which is EmptyRaw as well.
EmptyRaw == [year |-> None, price |-> None]
RawOutcomes == {EmptyRaw,
                [year |-> 2016, price |-> None],
                [year |-> None, price |-> -5]}

\* lines 377-380: model value wins when it is not None
MergeField(det, enr) == IF enr # None THEN enr ELSE det

Merged(r, i, raw) ==
    [post_id |-> ResolvePostId(r, i),
     source  |-> i,
     year    |-> MergeField(ParsedYear(i), raw.year),
     price   |-> MergeField(ParsedPrice(i), raw.price)]

\* Listing(**merged): Field(ge=0) on price, Field(ge=1950, le=2100) on year
Valid(m) ==
    /\ m.year = None \/ (m.year >= YearMin /\ m.year <= YearMax)
    /\ m.price = None \/ m.price >= PriceMin

\* ----------------------------------------------------------- state helpers
RECURSIVE SortedSeq(_)
SetMin(S) == CHOOSE x \in S : \A y \in S : x <= y
SetMax(S) == CHOOSE x \in S : \A y \in S : y <= x

\* _write_state: "\n".join(sorted(processed)), one key per line
SortedSeq(S) == IF S = {} THEN <<>> ELSE <<SetMin(S)>> \o SortedSeq(S \ {SetMin(S)})

\* _read_state on a readable object: the set of its non-blank lines
LinesToSet(lines) == {lines[k] : k \in DOMAIN lines}

NoObject == [exists |-> FALSE, lines |-> <<>>]

\* --------------------------------------------------------------- variables
VARIABLES
    env,        \* PROJECT_ID/GCS_BUCKET present, USE_VERTEX (module globals)
    runs,       \* run ids that hold source items <PREFIX>/<run>/txt/*.txt
    stateObj,   \* <PREFIX>/state/<run>.txt per run name
    out,        \* structured records <PREFIX>/<run>/structured/json2/<id>.json
    modelReady, \* per function instance: _MODEL is not None
    inv,        \* per function instance: the invocation of extract_http
    written,    \* history: source items <<run, item>> uploaded at least once
    twice,      \* history: some source item was uploaded a second time
    skipped,    \* history: source items skipped for lack of a post id
    downloaded, \* history: some source item download was attempted
    started,    \* history: invocations started
    hist,       \* history: "clean" while every invocation had overwrite=false,
                \* reached its state write and had no failed state read or
                \* write; "stateio" once a state read or write failed;
                \* "other" once overwrite=true was used or a crash happened
    call        \* the last application of a function to inputs, with its
                \* result (used by FnSpec only)

vars == <<env, runs, stateObj, out, modelReady, inv, written, twice,
          skipped, downloaded, started, hist, call>>

NoCall == [op |-> "none"]

NoResult == [status |-> 0, ok |-> FALSE, error |-> "none"]
NoLast == [run |-> None, overwrite |-> FALSE, summary |-> FALSE]

IdleInv ==
    [pc |-> "idle", run |-> None, defaulted |-> FALSE, overwrite |-> FALSE,
     maxFiles |-> 0, listing |-> <<>>, before |-> {}, loaded |-> {},
     cands |-> <<>>, idx |-> 1, pstate |-> {},
     processed |-> 0, written |-> 0, errors |-> 0,
     wrote |-> {}, skipped |-> {}, failed |-> {},
     stateReads |-> 0, stateWrites |-> 0, stateWritten |-> FALSE,
     prev |-> NoLast, result |-> NoResult]

\* the RunState persisted for a run name, as a set (no object = empty)
Persisted(r) == LinesToSet(stateObj[r].lines)

\* --------------------------------------------------------- store listings
\* _list_run_ids: the first-level "directories" under <PREFIX>/ -- every
\* run that holds objects, and "state" as soon as a state object exists
Prefixes ==
    runs \cup {o.run : o \in out}
         \cup (IF \E r \in RunNames : stateObj[r].exists THEN {StateDir} ELSE {})

\* _list_run_ids returns the prefixes sorted; extract_http takes runs[-1]
ListRunIds == SortedSeq(Prefixes)

\* _list_txt_for_run: the .txt keys under <PREFIX>/<run>/txt/, ascending
ListTxtForRun(r) == IF r \in runs THEN SortedSeq(Items) ELSE <<>>

\* _read_state: no object, or an unreadable one, is the empty set
ReadObject(obj, readOK) ==
    IF ~obj.exists THEN {}
    ELSE IF readOK THEN LinesToSet(obj.lines) ELSE {}

ReadState(r, readOK) == ReadObject(stateObj[r], readOK)

\* _write_state: the object is replaced by the set it is given, its keys
\* sorted
WriteStateUnsorted(r, processed) ==
    LET q == SortedSeq(processed)
    IN  [exists |-> TRUE, lines |-> [k \in 1..Len(q) |-> q[Len(q) + 1 - k]]]
WriteStateListing(r, processed) ==
    [exists |-> TRUE, lines |-> SortedSeq(Items)]
WriteStateMerges(r, processed) ==
    [exists |-> TRUE, lines |-> SortedSeq(processed \cup Persisted(r))]
WriteState(r, processed) == [exists |-> TRUE, lines |-> SortedSeq(processed)]

\* line 310
ConfigPresentAlways(e) == TRUE
ConfigPresent(e) == e.config

\* lines 335-336: skip the keys already done unless overwrite
FilterDoneNever(names, done, ow) == names
FilterDoneInverted(names, done, ow) ==
    IF ~ow THEN SelectSeq(names, LAMBDA n : n \in done) ELSE names
FilterDone(names, done, ow) ==
    IF ~ow THEN SelectSeq(names, LAMBDA n : n \notin done) ELSE names

\* lines 338-339
Truncate(names, mf) ==
    IF mf > 0 THEN SubSeq(names, 1, IF mf < Len(names) THEN mf ELSE Len(names))
    ELSE names

\* lines 331-339 together
CandidatesTruncateFirst(names, done, ow, mf) ==
    FilterDone(Truncate(names, mf), done, ow)
Candidates(names, done, ow, mf) == Truncate(FilterDone(names, done, ow), mf)

\* lines 408-411: an item that raised is not marked processed ...
MarkOnErrorAdds(pstate, name) == pstate \cup {name}
MarkOnError(pstate, name) == pstate

\* ... and is not counted in processed
ProcessedOnErrorCounts(n) == n + 1
ProcessedOnError(n) == n

\* ... and the loop goes on with the next candidate (the try is inside
\* the for); n is the number of candidates
NextIndexOnErrorBreaks(idx, n) == n + 1
NextIndexOnError(idx, n) == idx + 1

\* lines 360-364: an item without post id is marked processed
MarkOnSkipForgets(pstate, name) == pstate
MarkOnSkip(pstate, name) == pstate \cup {name}

\* ... and counted in processed
ProcessedOnSkipUncounted(n) == n
ProcessedOnSkip(n) == n + 1

\* lines 401-406: after the upload the key is marked processed
MarkOnWriteForgets(pstate, name) == pstate
MarkOnWrite(pstate, name) == pstate \cup {name}

\* last writer wins on <PREFIX>/<run>/structured/json2/<post_id>.json
UploadUnscoped(r, rec) ==
    {o \in out : o.post_id # rec.post_id}
        \cup {[run |-> r, post_id |-> rec.post_id, source |-> rec.source,
               year |-> rec.year, price |-> rec.price]}
Upload(r, rec) ==
    {o \in out : ~(o.run = r /\ o.post_id = rec.post_id)}
        \cup {[run |-> r, post_id |-> rec.post_id, source |-> rec.source,
               year |-> rec.year, price |-> rec.price]}

\* -------------------------------------------------------------------- Init
Init ==
    /\ env \in [config : BOOLEAN, useVertex : BOOLEAN]
    /\ runs \in SUBSET RunIds
    /\ stateObj = [r \in RunNames |-> NoObject]
    /\ out = {}
    /\ modelReady = [p \in Procs |-> FALSE]
    /\ inv = [p \in Procs |-> IdleInv]
    /\ written = {}
    /\ twice = FALSE
    /\ skipped = {}
    /\ downloaded = FALSE
    /\ started = 0
    /\ hist = "clean"
    /\ call = NoCall

\* ----------------------------------------------------------------- actions
Resting(p) == inv[p].pc \in {"idle", "done", "crashed"}

\* how the invocation that p ran before ended
Previous(p) ==
    [run |-> inv[p].run, overwrite |-> inv[p].overwrite,
     summary |-> inv[p].pc = "done" /\ inv[p].result.ok]

StateFailed(h, failed) == IF h = "clean" /\ failed THEN "stateio" ELSE h
OutOfScope(h, out_of_scope) == IF out_of_scope THEN "other" ELSE h

Return(p, status, ok, error) ==
    [IdleInv EXCEPT !.pc = "done",
                    !.prev = Previous(p),
                    !.result = [status |-> status, ok |-> ok, error |-> error]]

\* extract_http, lines 307-350: configuration, request, run selection,
\* candidates, model initialisation
Invoke(p, rid, mf, ow, existsOK, readOK, initOK) ==
    /\ Resting(p)
    /\ UNCHANGED <<env, runs, stateObj, out, written, twice, skipped,
                   downloaded, call>>
    /\ IF ~ConfigPresent(env)
       THEN /\ inv' = [inv EXCEPT ![p] = Return(p, 500, FALSE, "missing_config")]
            /\ UNCHANGED <<modelReady, hist>>
       ELSE IF rid = None /\ ListRunIds = <<>>
       THEN /\ inv' = [inv EXCEPT ![p] = Return(p, 200, FALSE, "no_runs")]
            /\ UNCHANGED <<modelReady, hist>>
       ELSE IF ~existsOK
       THEN \* line 75: bl.exists() is outside the try of _read_state, so
            \* its exception leaves extract_http unhandled
            /\ inv' = [inv EXCEPT ![p] =
                          [Return(p, 500, FALSE, "state_exists_raised")
                             EXCEPT !.stateReads = 1]]
            /\ UNCHANGED <<modelReady, hist>>
       ELSE
         LET run     == IF rid # None THEN rid ELSE ListRunIds[Len(ListRunIds)]
             listing == ListTxtForRun(run)
             loaded  == ReadState(run, readOK)
             cands   == Candidates(listing, loaded, ow, mf)
             ready   == modelReady[p] \/ (env.useVertex /\ initOK)
             h1      == OutOfScope(
                            StateFailed(hist, stateObj[run].exists /\ ~readOK),
                            ow)
         IN  /\ hist' = h1
             /\ IF ready
                THEN /\ modelReady' = [modelReady EXCEPT ![p] = TRUE]
                     /\ inv' = [inv EXCEPT ![p] =
                          [IdleInv EXCEPT !.pc = "loop",
                                          !.run = run,
                                          !.defaulted = (rid = None),
                                          !.overwrite = ow,
                                          !.maxFiles = mf,
                                          !.listing = listing,
                                          !.before = Persisted(run),
                                          !.loaded = loaded,
                                          !.cands = cands,
                                          !.pstate = loaded,
                                          !.stateReads = 1,
                                          !.prev = Previous(p)]]
                ELSE /\ UNCHANGED modelReady
                     /\ inv' = [inv EXCEPT ![p] =
                          [Return(p, 500, FALSE, "vertex_init_failed")
                             EXCEPT !.run = run, !.defaulted = (rid = None),
                                    !.stateReads = 1]]

\* an invocation of the bounded specifications: they count the invocations
Start(p, rid, mf, ow, existsOK, readOK, initOK) ==
    /\ started < MaxInvocations
    /\ started' = started + 1
    /\ Invoke(p, rid, mf, ow, existsOK, readOK, initOK)

\* non-overlapping invocations: a new one starts when no other is running;
\* the request names a run of the store or omits run_id
Begin(p) ==
    /\ \A q \in Procs : Resting(q)
    /\ \E rid \in runs \cup {None}, mf \in 0..MaxFiles, ow \in BOOLEAN,
          existsOK \in BOOLEAN, readOK \in BOOLEAN, initOK \in BOOLEAN :
            Start(p, rid, mf, ow, existsOK, readOK, initOK)

\* extract_http, lines 352-411: one pass of the loop body, given whether
\* the download succeeds, what the enrichment contributes and whether the
\* upload succeeds
Attempt(p, dlOK, raw, upOK) ==
    /\ inv[p].pc = "loop"
    /\ inv[p].idx <= Len(inv[p].cands)
    /\  LET v      == inv[p]
            r      == v.run
            name   == v.cands[v.idx]
            pid    == ResolvePostId(r, name)
            merged == Merged(r, name, raw)
            raised == [v EXCEPT !.idx = NextIndexOnError(@, Len(v.cands)),
                                !.errors = @ + 1,
                                !.processed = ProcessedOnError(@),
                                !.pstate = MarkOnError(@, name),
                                !.failed = @ \cup {name}]
        IN  /\ downloaded' = TRUE
            /\ IF ~dlOK \/ (pid # None /\ (~Valid(merged) \/ ~upOK))
               THEN /\ inv' = [inv EXCEPT ![p] = raised]
                    /\ UNCHANGED <<out, written, twice, skipped>>
               ELSE IF pid = None
               THEN /\ inv' = [inv EXCEPT ![p] =
                         [v EXCEPT !.idx = @ + 1,
                                   !.processed = ProcessedOnSkip(@),
                                   !.pstate = MarkOnSkip(@, name),
                                   !.skipped = @ \cup {name}]]
                    /\ skipped' = skipped \cup {<<r, name>>}
                    /\ UNCHANGED <<out, written, twice>>
               ELSE /\ out' = Upload(r, merged)
                    /\ written' = written \cup {<<r, name>>}
                    /\ twice' = (twice \/ <<r, name>> \in written)
                    /\ UNCHANGED skipped
                    /\ inv' = [inv EXCEPT ![p] =
                         [v EXCEPT !.idx = @ + 1,
                                   !.written = @ + 1,
                                   !.processed = @ + 1,
                                   !.pstate = MarkOnWrite(@, name),
                                   !.wrote = @ \cup {name}]]
    /\ UNCHANGED <<env, runs, stateObj, modelReady, started, hist, call>>

ProcessItem(p) ==
    \E dlOK \in BOOLEAN, raw \in RawOutcomes, upOK \in BOOLEAN :
        Attempt(p, dlOK, raw, upOK)

\* lines 413-427: the exception of _write_state is logged, the summary is
\* the same either way
SummaryFailsWithWrite(wOK) ==
    IF wOK THEN [status |-> 200, ok |-> TRUE, error |-> "none"]
    ELSE [status |-> 500, ok |-> FALSE, error |-> "state_write_failed"]
SummaryResult(wOK) == [status |-> 200, ok |-> TRUE, error |-> "none"]

\* extract_http, lines 413-427: best-effort state write, then the summary,
\* given whether the state write succeeds
Persist(p, wOK) ==
    /\ inv[p].pc = "loop"
    /\ inv[p].idx > Len(inv[p].cands)
    /\ stateObj' = IF wOK
                   THEN [stateObj EXCEPT ![inv[p].run] =
                            WriteState(inv[p].run, inv[p].pstate)]
                   ELSE stateObj
    /\ hist' = StateFailed(hist, ~wOK)
    /\ inv' = [inv EXCEPT ![p].pc = "done",
                          ![p].stateWrites = @ + 1,
                          ![p].stateWritten = wOK,
                          ![p].result = SummaryResult(wOK)]
    /\ UNCHANGED <<env, runs, out, modelReady, written, twice, skipped,
                   downloaded, started, call>>

PersistState(p) == \E wOK \in BOOLEAN : Persist(p, wOK)

\* the function instance is killed (deadline, eviction) inside the loop or
\* before the state write: memory is lost, the store keeps what was written
Crash(p) ==
    /\ inv[p].pc = "loop"
    /\ inv' = [inv EXCEPT ![p].pc = "crashed"]
    /\ modelReady' = [modelReady EXCEPT ![p] = FALSE]
    /\ hist' = OutOfScope(hist, TRUE)
    /\ UNCHANGED <<env, runs, stateObj, out, written, twice, skipped,
                   downloaded, started, call>>

\* Spec runs the invocations one after the other on one function instance
Solo == "A"

Next == Begin(Solo) \/ ProcessItem(Solo) \/ PersistState(Solo) \/ Crash(Solo)

Spec == Init /\ [][Next]_vars

\* ------------------------------------------------ overlapping invocations
\* Two function instances serve one request each; nothing orders their
\* steps, so the requests overlap in every way: each store operation of
\* Invoke, Attempt and Persist is one step.
ConcBegin(p) ==
    /\ inv[p].pc = "idle"
    /\ \E rid \in runs \cup {None}, mf \in 0..MaxFiles, ow \in BOOLEAN,
          existsOK \in BOOLEAN, readOK \in BOOLEAN, initOK \in BOOLEAN :
            Start(p, rid, mf, ow, existsOK, readOK, initOK)

ConcNext == \E p \in Procs : ConcBegin(p) \/ ProcessItem(p) \/ PersistState(p)

ConcSpec == Init /\ [][ConcNext]_vars

\* ---------------------------------------------------- repeated invocations
\* The periodic trigger: the same request is sent again and again, each
\* invocation after the one before has returned.  The first request names a
\* run of the store and a max_files; overwrite is false.  Configuration is
\* present, the model initialises, the state read and the state write
\* succeed.  A download or an upload may fail, but not for ever.  The enrichment
\* contributes nothing, so an item whose store operations succeed has the
\* outcome of its deterministic fields.  The invocations are not counted:
\* there is no last one.
LiveInit ==
    /\ Init
    /\ env = [config |-> TRUE, useVertex |-> TRUE]
    /\ runs # {}

LiveBegin(p) ==
    /\ UNCHANGED started
    /\ IF inv[p].pc = "idle"
       THEN \E rid \in runs, mf \in 0..MaxFiles :
                Invoke(p, rid, mf, FALSE, TRUE, TRUE, TRUE)
       ELSE Invoke(p, inv[p].run, inv[p].maxFiles, FALSE, TRUE, TRUE, TRUE)

LiveAttempt(p) ==
    \E dlOK \in BOOLEAN, upOK \in BOOLEAN : Attempt(p, dlOK, EmptyRaw, upOK)

LivePersist(p) == Persist(p, TRUE)

LiveNext == LiveBegin(Solo) \/ LiveAttempt(Solo) \/ LivePersist(Solo)

\* the attempt of item i in which download and upload succeed
StoreSucceedsOn(i) ==
    /\ inv[Solo].pc = "loop"
    /\ inv[Solo].idx <= Len(inv[Solo].cands)
    /\ inv[Solo].cands[inv[Solo].idx] = i
    /\ Attempt(Solo, TRUE, EmptyRaw, TRUE)

\* the trigger keeps firing and a started invocation runs to its end (weak
\* fairness of the steps); an item that is attempted again and again has its
\* store operations succeed at some attempt (strong fairness of the
\* successful outcome)
LiveSpec ==
    /\ LiveInit
    /\ [][LiveNext]_vars
    /\ WF_vars(LiveNext)
    /\ \A i \in Items : SF_vars(StoreSucceedsOn(i))

TypeOK ==
    /\ runs \subseteq RunIds
    /\ started \in 0..MaxInvocations
    /\ \A p \in Procs : inv[p].pc \in {"idle", "loop", "done", "crashed"}

\* ============================================================ per-item body
\* The body of the loop of extract_http (lines 354-411) as a function of
\* what the item and the collaborators give it.  Field maps are functions
\* from the keys they hold; Python None is NullOf(k) for the key k.
Keys == {"post_id", "url", "year", "price", "mileage", "attrs_json"}

DetUrl == "https://x/101.html"
EnrUrl == "https://y/999.html"
NullAttrs == [kind |-> "null", misc |-> "absent"]
EmptyAttrs == [kind |-> "map", misc |-> "absent"]
EmptyMap == [k \in {} |-> None]

NullOf(k) ==
    CASE k = "url" -> "null"
      [] k = "attrs_json" -> NullAttrs
      [] OTHER -> None

\* dict.get(k)
Get(m, k) == IF k \in DOMAIN m THEN m[k] ELSE NullOf(k)

\* m[k] = v
Put(m, k, v) == [x \in DOMAIN m \cup {k} |-> IF x = k THEN v ELSE m[x]]

\* Python truth of a url value: None and "" are false
UrlTruthy(u) == u \notin {"null", ""}

\* lines 376-380: merged = dict(parsed); every raw value that is not None
\* replaces or adds its key
MergeLoopKeepsParsed(parsed, raw) == parsed
MergeLoop(parsed, raw) ==
    [k \in DOMAIN parsed \cup {x \in DOMAIN raw : raw[x] # NullOf(x)} |->
        IF k \in DOMAIN raw /\ raw[k] # NullOf(k) THEN raw[k] ELSE parsed[k]]

\* line 382, after the loop: the resolved post id replaces whatever the
\* loop stored
SetPostIdKeepsLoop(m, post_id) ==
    IF Get(m, "post_id") # None THEN m ELSE Put(m, "post_id", post_id)
SetPostId(m, post_id) == Put(m, "post_id", post_id)

\* line 383: merged["url"] = merged.get("url") or url, after the loop
SetUrlPrefersDet(m, url) ==
    Put(m, "url", IF UrlTruthy(url) THEN url ELSE Get(m, "url"))
SetUrl(m, url) ==
    Put(m, "url", IF UrlTruthy(Get(m, "url")) THEN Get(m, "url") ELSE url)

\* lines 385-389: price fallback when the merged price is still None; pf is
\* what price_fallback returns for the merged title and body
SetPriceFallback(m, pf) ==
    IF Get(m, "price") = None /\ pf # None THEN Put(m, "price", pf) ELSE m

\* lines 391-393: attrs_json None becomes {}
DefaultAttrs(m) ==
    IF Get(m, "attrs_json") = NullAttrs THEN Put(m, "attrs_json", EmptyAttrs)
    ELSE m

\* _ensure_misc_list on a mapping: misc that is not a list becomes []
EnsureMiscListKeeps(attrs) == attrs
EnsureMiscList(attrs) ==
    IF attrs.misc = "list" THEN attrs ELSE [attrs EXCEPT !.misc = "empty"]

\* _ensure_misc_list calls attrs.get: a value that is no mapping raises
EnsureRaises(attrs) == attrs.kind # "map"

\* Listing(**merged): Field bounds of lines 118, 119, 123
ValidListingAcceptsAll(m) == TRUE
ValidListing(m) ==
    /\ Get(m, "price") = None \/ Get(m, "price") >= PriceMin
    /\ Get(m, "year") = None
         \/ (Get(m, "year") >= YearMin /\ Get(m, "year") <= YearMax)
    /\ Get(m, "mileage") = None \/ Get(m, "mileage") >= MileageMin

\* item.dict(): every field of Listing, None where the map had no key
ToRecord(m) == [k \in Keys |-> Get(m, k)]

\* lines 366-373: what the loop takes as raw; an exception of the call is {}
RawOf(enrich) == IF enrich.kind = "object" THEN enrich.map ELSE EmptyMap

ItemResult(kind, cause, key, loop, merged, rec) ==
    [kind |-> kind, cause |-> cause, key |-> key, loop |-> loop,
     merged |-> merged, rec |-> rec]

\* lines 354-411 for one candidate
ProcessOne(a) ==
    LET url     == Get(a.parsed, "url")
        post_id == IF Get(a.parsed, "post_id") # None
                   THEN Get(a.parsed, "post_id") ELSE a.anyId
        loop    == MergeLoop(a.parsed, RawOf(a.enrich))
        m1      == SetPriceFallback(SetUrl(SetPostId(loop, post_id), url), a.pf)
        m2      == DefaultAttrs(m1)
        merged  == Put(m2, "attrs_json", EnsureMiscList(m2["attrs_json"]))
    IN  IF ~a.dlOK
        THEN ItemResult("error", "download", None, EmptyMap, EmptyMap, EmptyMap)
        ELSE IF post_id = None
        THEN ItemResult("skipped", "no_post_id", None, EmptyMap, EmptyMap, EmptyMap)
        ELSE IF a.enrich.kind = "nonobject"
        THEN \* json.loads gave a value without .items(): line 378 raises
             ItemResult("error", "enrichment", post_id, EmptyMap, EmptyMap, EmptyMap)
        ELSE IF EnsureRaises(m2["attrs_json"])
        THEN ItemResult("error", "attrs", post_id, loop, m2, EmptyMap)
        ELSE IF ~ValidListing(merged)
        THEN ItemResult("error", "schema", post_id, loop, merged, EmptyMap)
        ELSE IF ~a.upOK
        THEN ItemResult("error", "upload", post_id, loop, merged, EmptyMap)
        ELSE ItemResult("written", "none", post_id, loop, merged, ToRecord(merged))

\* ------------------------------------------------- inputs of the item body
\* parse_txt: url and post_id keys exist only with a URL line (and an id in
\* it); year and attrs_json always exist; price only with a Price line;
\* parse_txt never sets mileage
ParsedInputs ==
    {idurl @@ ("year" :> y) @@ price @@ ("attrs_json" :> at) :
        idurl \in {EmptyMap,
                   ("url" :> DetUrl),
                   ("url" :> DetUrl) @@ ("post_id" :> 101)},
        y \in {None, 1900, 2016},
        price \in {EmptyMap, ("price" :> 9900)},
        at \in {[kind |-> "map", misc |-> ms] : ms \in {"absent", "str", "list"}}}

\* JSON objects the enrichment service may answer with
RawObjects ==
    {idurl @@ nums @@ at :
        idurl \in {EmptyMap,
                   ("url" :> ""),
                   ("url" :> EnrUrl) @@ ("post_id" :> 999)},
        nums \in {EmptyMap,
                  ("year" :> 2016) @@ ("price" :> None) @@ ("mileage" :> 50000),
                  ("price" :> -5),
                  ("price" :> 8500),
                  ("mileage" :> -1),
                  ("year" :> 3000)},
        at \in {EmptyMap, ("attrs_json" :> NullAttrs)}
               \cup {("attrs_json" :> [kind |-> "map", misc |-> ms]) :
                        ms \in {"absent", "str", "list"}}
               \cup {("attrs_json" :> [kind |-> "str", misc |-> "absent"])}}

\* model_extract_json: raises (service error, response that is no JSON),
\* returns a JSON value that is no object, or returns an object
EnrichOutcomes ==
    {[kind |-> "raise", map |-> EmptyMap], [kind |-> "nonobject", map |-> EmptyMap]}
        \cup {[kind |-> "object", map |-> f] : f \in RawObjects}

\* mf is the mileage that the text of the item states under an explicit
\* label (None when it has no such label); the loop body never reads it
ItemInputs ==
    [dlOK : BOOLEAN, parsed : ParsedInputs, anyId : {None, 102},
     pf : {None, 5000}, mf : {None, 50000}, enrich : EnrichOutcomes,
     upOK : BOOLEAN]

\* --------------------------------------------------- function application
FnInit ==
    /\ env = [config |-> TRUE, useVertex |-> TRUE]
    /\ runs = {}
    /\ stateObj = [r \in RunNames |-> NoObject]
    /\ out = {}
    /\ modelReady = [p \in Procs |-> FALSE]
    /\ inv = [p \in Procs |-> IdleInv]
    /\ written = {}
    /\ twice = FALSE
    /\ skipped = {}
    /\ downloaded = FALSE
    /\ started = 0
    /\ hist = "clean"
    /\ call = NoCall

FnFrame ==
    UNCHANGED <<env, runs, stateObj, out, modelReady, inv, written, twice,
                skipped, downloaded, started, hist>>

\* one application per behaviour: the function is applied to inputs drawn
\* from the input sets and the result is kept with them (only the
\* global-state variant further down is applied again to what it left)
ItemCall ==
    /\ call.op = "none"
    /\ \E a \in ItemInputs :
        call' = [op |-> "item", args |-> a, result |-> ProcessOne(a)]
    /\ FnFrame

\* ================================================================== claims
Range(q) == {q[k] : k \in DOMAIN q}

\* the invocation of p has returned its summary (lines 419-427)
Summarised(p) == inv[p].pc = "done" /\ inv[p].result.ok

\* the invocation of p directly follows a summarised invocation with
\* overwrite=false on the same run
SecondInARow(p) ==
    /\ Summarised(p)
    /\ ~inv[p].overwrite
    /\ inv[p].prev.summary
    /\ inv[p].prev.run = inv[p].run
    /\ ~inv[p].prev.overwrite

\* item i of run r passes the RunState filter of an invocation with
\* overwrite=false started now, whether or not its state read succeeds
CandidateNext(r, i) ==
    \A readOK \in BOOLEAN :
        i \in Range(FilterDone(ListTxtForRun(r), ReadState(r, readOK), FALSE))

\* ---------------------------------------------------------------------- C1
\* C1 as stated: the second of two invocations in a row on one run with
\* overwrite=false writes nothing and leaves the persisted RunState as the
\* first left it, whatever max_files and whatever the first one's outcomes.
C1_AsStated ==
    \A p \in Procs :
        SecondInARow(p) =>
            /\ inv[p].written = 0
            /\ Persisted(inv[p].run) = inv[p].before

\* C1 amended: the second invocation writes nothing and leaves the persisted
\* RunState unchanged when the first one left every listed item of the run
\* in the persisted RunState and the second one's state read succeeds.
C1_SecondRunIdle ==
    \A p \in Procs :
        (/\ SecondInARow(p)
         /\ Range(inv[p].listing) \subseteq inv[p].before
         /\ inv[p].loaded = inv[p].before)
        => /\ inv[p].written = 0
           /\ inv[p].processed = 0
           /\ inv[p].errors = 0
           /\ Persisted(inv[p].run) = inv[p].before

C1_Witness ==
    \E p \in Procs :
        /\ SecondInARow(p)
        /\ inv[p].listing # <<>>
        /\ Range(inv[p].listing) \subseteq inv[p].before
        /\ inv[p].loaded = inv[p].before
        /\ \E i \in inv[p].before : <<inv[p].run, i>> \in written

C3_AsStated ==
    \A p \in Procs :
        Summarised(p) =>
            /\ inv[p].errors = Cardinality(inv[p].failed)
            /\ inv[p].failed \cup inv[p].wrote \cup inv[p].skipped
                   = Range(inv[p].cands)
            /\ \A i \in inv[p].failed :
                /\ i \in inv[p].pstate => i \in inv[p].loaded
                /\ CandidateNext(inv[p].run, i)

\* C3 amended: as stated, except that the item is a candidate of the next
\* invocation with overwrite=false unless its key was in the persisted
\* RunState already before the failing invocation started.
C3_FailedItemsRetried ==
    \A p \in Procs :
        Summarised(p) =>
            /\ inv[p].errors = Cardinality(inv[p].failed)
            /\ inv[p].failed \cup inv[p].wrote \cup inv[p].skipped
                   = Range(inv[p].cands)
            /\ \A i \in inv[p].failed :
                /\ i \in inv[p].pstate => i \in inv[p].loaded
                /\ i \notin inv[p].before => CandidateNext(inv[p].run, i)

C3_Witness ==
    \E p \in Procs :
        /\ Summarised(p)
        /\ \E i \in inv[p].failed, j \in inv[p].wrote :
            /\ i < j
            /\ i \notin inv[p].before
            /\ CandidateNext(inv[p].run, i)

\* ---------------------------------------------------------------------- C4
\* no listed item is lost: it is written, or in the persisted RunState, or a
\* candidate of the next invocation
NothingDropped ==
    \A r \in runs : \A i \in Range(ListTxtForRun(r)) :
        \/ <<r, i>> \in written
        \/ i \in Persisted(r)
        \/ CandidateNext(r, i)

\* C4 as stated: after a crash between an upload and the state write the
\* uploaded item's key is absent from the persisted RunState and the item is
\* processed again by the next invocation with overwrite=false; nothing is
\* ever dropped.
C4_AsStated ==
    /\ NothingDropped
    /\ \A p \in Procs :
        inv[p].pc = "crashed" =>
            \A i \in inv[p].wrote :
                /\ i \notin Persisted(inv[p].run)
                /\ CandidateNext(inv[p].run, i)

\* C4 amended: after such a crash the persisted RunState is what it was when
\* the invocation started, so the uploaded item's key is absent from it and
\* the item is a candidate again unless the key was persisted already before
\* the crashed invocation; nothing is ever dropped.
C4_CrashReprocesses ==
    /\ NothingDropped
    /\ \A p \in Procs :
        inv[p].pc = "crashed" =>
            /\ Persisted(inv[p].run) = inv[p].before
            /\ \A i \in inv[p].wrote :
                i \notin inv[p].before =>
                    /\ i \notin Persisted(inv[p].run)
                    /\ CandidateNext(inv[p].run, i)

C4_Witness ==
    \E p \in Procs :
        /\ inv[p].pc = "crashed"
        /\ \E i \in inv[p].wrote :
            /\ i \notin inv[p].before
            /\ <<inv[p].run, i>> \in written
            /\ CandidateNext(inv[p].run, i)

\* ---------------------------------------------------------------------- C5
\* C5 as stated: every key in an in-memory or persisted RunState is the key
\* of an item whose record was uploaded.
C5_AsStated ==
    /\ \A r \in RunNames : \A i \in Persisted(r) : <<r, i>> \in written
    /\ \A p \in Procs :
        inv[p].pc \in {"loop", "done"} =>
            \A i \in inv[p].pstate : <<inv[p].run, i>> \in written

\* C5 amended: every key in an in-memory or persisted RunState is the key of
\* an item whose record was uploaded or that was skipped for lack of a post
\* id.
C5_MarkedAfterWriteOrSkip ==
    /\ \A r \in RunNames : \A i \in Persisted(r) :
        <<r, i>> \in written \cup skipped
    /\ \A p \in Procs :
        inv[p].pc \in {"loop", "done"} =>
            \A i \in inv[p].pstate : <<inv[p].run, i>> \in written \cup skipped

C5_Witness ==
    \E r \in RunNames : \E i, j \in Persisted(r) :
        /\ <<r, i>> \in written
        /\ <<r, j>> \in skipped
        /\ <<r, j>> \notin written

\* ---------------------------------------------------------------------- C6
\* C6: a failure status is returned only when the configuration is missing;
\* a disabled or unavailable enrichment service never fails the invocation.
C6_OnlyConfigFails ==
    \A p \in Procs :
        (inv[p].pc = "done" /\ inv[p].result.status = 500) => ~env.config

\* ---------------------------------------------------------------------- C7
\* C7: with the configuration missing every invocation returns the error
\* object with the failure status, no source item is downloaded, no record is
\* written and no RunState is persisted.
C7_MissingConfigDoesNothing ==
    ~env.config =>
        /\ ~downloaded
        /\ out = {}
        /\ written = {}
        /\ \A r \in RunNames : stateObj[r] = NoObject
        /\ \A p \in Procs :
            /\ inv[p].pc \in {"idle", "done"}
            /\ inv[p].pc = "done" =>
                inv[p].result = [status |-> 500, ok |-> FALSE,
                                 error |-> "missing_config"]

C7_Witness ==
    /\ ~env.config
    /\ runs # {}
    /\ started = MaxInvocations
    /\ \E p \in Procs : inv[p].pc = "done" /\ inv[p].result.status = 500

\* ---------------------------------------------------------------------- C8
\* C8: with run_id omitted the invocation works on the greatest of the runs
\* that hold source items, and returns "no runs" exactly when there is none.
C8_DefaultIsNewestRun ==
    \A p \in Procs :
        /\ inv[p].defaulted => (runs # {} /\ inv[p].run = SetMax(runs))
        /\ inv[p].result.error = "no_runs" => runs = {}

\* ---------------------------------------------------------------------- C9
\* the listed items an invocation may attempt, and those among them that
\* survive the truncation
Eligible(v) == {n \in Range(v.listing) : v.overwrite \/ n \notin v.loaded}
Expected(v) ==
    IF v.maxFiles > 0
    THEN {n \in Eligible(v) :
            Cardinality({m \in Eligible(v) : m < n}) < v.maxFiles}
    ELSE Eligible(v)

\* C9: the attempted items are the listed items minus the loaded RunState
\* (nothing removed with overwrite), cut to the first max_files of them when
\* max_files > 0; with overwrite=false none of them is in the loaded state.
C9_CandidatesFilteredThenCut ==
    \A p \in Procs :
        LET v == inv[p] IN
        /\ Range(v.cands) = Expected(v)
        /\ Len(v.cands) = Cardinality(Expected(v))
        /\ \A a, b \in DOMAIN v.cands : a < b => v.cands[a] < v.cands[b]
        /\ ~v.overwrite => Range(v.cands) \cap v.loaded = {}
        /\ Summarised(p) => v.failed \cup v.wrote \cup v.skipped = Expected(v)

C9_Witness ==
    \E p \in Procs :
        LET v == inv[p] IN
        /\ Summarised(p)
        /\ ~v.overwrite
        /\ v.loaded # {}
        /\ v.maxFiles > 0
        /\ Len(v.listing) > v.maxFiles
        /\ v.listing[1] \in v.loaded
        /\ v.cands # <<>>

\* --------------------------------------------------------------------- C10
\* C10 as stated: in the summary processed is the number of attempted items,
\* written_json the number of uploaded items, errors the number of items
\* that raised.
C10_AsStated ==
    \A p \in Procs :
        Summarised(p) =>
            /\ inv[p].processed = Len(inv[p].cands)
            /\ inv[p].written = Cardinality(inv[p].wrote)
            /\ inv[p].errors = Cardinality(inv[p].failed)

\* C10 amended: processed is the number of attempted items that were
\* uploaded or skipped -- an item that raised is counted in errors only --
\* written_json the number of uploaded items, errors the number of items
\* that raised.
C10_SummaryCounts ==
    \A p \in Procs :
        Summarised(p) =>
            /\ inv[p].processed = Cardinality(inv[p].wrote \cup inv[p].skipped)
            /\ inv[p].written = Cardinality(inv[p].wrote)
            /\ inv[p].errors = Cardinality(inv[p].failed)
            /\ inv[p].wrote \cap inv[p].failed = {}
            /\ inv[p].skipped \cap inv[p].failed = {}

C10_Witness ==
    \E p \in Procs :
        /\ Summarised(p)
        /\ inv[p].wrote \cup inv[p].skipped # {}
        /\ inv[p].failed # {}
        /\ inv[p].processed < Len(inv[p].cands)

\* --------------------------------------------------------------------- C11
\* what holds of every skipped item: no post id is resolvable for it, no
\* record of it was ever written, it is in the in-memory RunState, it is
\* counted in processed and in neither written_json nor errors
SkipFacts ==
    /\ \A k \in skipped :
        /\ ResolvePostId(k[1], k[2]) = None
        /\ k \notin written
        /\ \A o \in out : ~(o.run = k[1] /\ o.source = k[2])
    /\ \A p \in Procs :
        inv[p].pc \in {"loop", "done", "crashed"} =>
            /\ \A i \in inv[p].skipped :
                /\ <<inv[p].run, i>> \in skipped
                /\ i \in inv[p].pstate
                /\ i \notin inv[p].wrote \cup inv[p].failed
            /\ \A i \in inv[p].wrote : ResolvePostId(inv[p].run, i) # None
            /\ inv[p].processed =
                   Cardinality(inv[p].wrote) + Cardinality(inv[p].skipped)
            /\ inv[p].written = Cardinality(inv[p].wrote)
            /\ inv[p].errors = Cardinality(inv[p].failed)

\* the candidates of an invocation with overwrite=false that has not
\* attempted anything yet
FreshCandidates(p) ==
    IF inv[p].pc = "loop" /\ inv[p].idx = 1 /\ ~inv[p].overwrite
    THEN Range(inv[p].cands) ELSE {}

C12_LoadNeverFails ==
    \A p \in Procs :
        /\ inv[p].result.error # "state_exists_raised"
        /\ inv[p].pc \in {"loop", "crashed"} \/ Summarised(p) =>
            inv[p].loaded \in {{}, inv[p].before}

\* ------------------------------------------------------------ price_fallback
\* A text is a sequence of tokens; for PRICE_FALLBACK_RE a token is the
\* number it spells (None for a word).  The pattern needs three digits at
\* least, so smaller numbers and words are no match.
PriceTokens == {None, 42, 499, 500, 9900, 150000, 150001}
PriceTexts == UNION {[1..n -> PriceTokens] : n \in 0..MaxPriceTokens}

IsPriceMatch(t) == t >= 100

\* PRICE_FALLBACK_RE.search(s): the leftmost match, as int(digits)
FirstPriceMatch(s) ==
    LET I == {i \in DOMAIN s : IsPriceMatch(s[i])}
    IN  IF I = {} THEN None ELSE s[SetMin(I)]

\* line 284
InBandAlways(n) == TRUE
InBand(n) == BandMin <= n /\ n <= BandMax

\* price_fallback: title first, then body; one match per string is looked at
PriceFallback(title, body) ==
    LET t == FirstPriceMatch(title)
        b == FirstPriceMatch(body)
    IN  IF t # None /\ InBand(t) THEN t
        ELSE IF b # None /\ InBand(b) THEN b
        ELSE None

PriceCall ==
    /\ call.op = "none"
    /\ \E title \in PriceTexts, body \in PriceTexts :
        call' = [op |-> "price", args |-> [title |-> title, body |-> body],
                 result |-> PriceFallback(title, body)]
    /\ FnFrame

\* ------------------------------------------------------- mileage resolution
\* parse_listing of src/extractor_v2.py (and extractor_v3_jsonl.py).  Tokens:
\*   label       "Mileage: 50,000" / "odometer 50000": label, then digits
\*   labelcomma  "mileage, ...": label followed by commas only, so that the
\*               capture [\d,]+ holds no digit
\*   k           "80k miles"
\*   plain       "120,000 miles"
\*   word        anything else
MileTokens ==
    {[kind |-> "label", val |-> 50000],
     [kind |-> "labelcomma", val |-> None],
     [kind |-> "k", val |-> 80],
     [kind |-> "plain", val |-> 120000],
     [kind |-> "word", val |-> None]}
MileTexts == UNION {[1..n -> MileTokens] : n \in 0..MaxMileTokens}

NoToken == [kind |-> "none", val |-> None]

\* re.search: the leftmost token one of the kinds matches
FirstOf(text, kinds) ==
    LET I == {i \in DOMAIN text : text[i].kind \in kinds}
    IN  IF I = {} THEN NoToken ELSE text[SetMin(I)]

\* stage (1), lines 77-82: the leftmost label match; int() of a capture
\* without digits raises ValueError and leaves mi None
StageLabelSkipsBad(text) == FirstOf(text, {"label"}).val
StageLabel(text) ==
    LET m1 == FirstOf(text, {"label", "labelcomma"})
    IN  IF m1.kind = "label" THEN m1.val ELSE None

\* stage (2), lines 85-91
StageK(text) ==
    LET m2 == FirstOf(text, {"k"})
    IN  IF m2.kind = "k" THEN m2.val * 1000 ELSE None

\* stage (3), lines 94-100
StagePlain(text) == FirstOf(text, {"plain"}).val

\* lines 74-103: each stage runs only while mi is None
MileageOf(text) ==
    IF StageLabel(text) # None THEN StageLabel(text)
    ELSE IF StageK(text) # None THEN StageK(text)
    ELSE StagePlain(text)

MileageCall ==
    /\ call.op = "none"
    /\ \E text \in MileTexts :
        call' = [op |-> "mileage", args |-> [text |-> text],
                 result |-> MileageOf(text)]
    /\ FnFrame

\* ------------------------------------------------------- VIN normalisation
\* A VIN value is null or a string; a string is the sequence of its
\* characters.  The alphabet has a letter in both cases, a digit, and the two
\* characters the normalisation removes.
MaxVinLen == 3          \* longest VIN string of the inputs

VinChars == {"a", "A", "7", " ", "-"}

RECURSIVE StringsUpTo(_, _)
StringsUpTo(chars, n) ==
    IF n = 0 THEN {<<>>}
    ELSE LET shorter == StringsUpTo(chars, n - 1)
         IN  shorter \cup {Append(s, c) : s \in shorter, c \in chars}

NullVin == [isNull |-> TRUE, chars |-> <<>>]
VinStr(s) == [isNull |-> FALSE, chars |-> s]
VinValues == {NullVin} \cup {VinStr(s) : s \in StringsUpTo(VinChars, MaxVinLen)}

\* str.upper()
UpperChar(c) == IF c = "a" THEN "A" ELSE c
Upper(s) == [k \in 1..Len(s) |-> UpperChar(s[k])]

\* str.replace(c, ""): every occurrence goes
RECURSIVE ReplaceFirstOnly(_, _)
ReplaceFirstOnly(s, c) ==
    IF s = <<>> THEN <<>>
    ELSE IF Head(s) = c THEN Tail(s)
    ELSE <<Head(s)>> \o ReplaceFirstOnly(Tail(s), c)
RECURSIVE ReplaceAll(_, _)
ReplaceAll(s, c) ==
    IF s = <<>> THEN <<>>
    ELSE IF Head(s) = c THEN ReplaceAll(Tail(s), c)
    ELSE <<Head(s)>> \o ReplaceAll(Tail(s), c)

\* _clean_vin: a falsy value (null, "") is returned as it is
CleanVin(v) ==
    IF v.isNull \/ v.chars = <<>> THEN v
    ELSE VinStr(ReplaceAll(ReplaceAll(Upper(v.chars), " "), "-"))

VinCall ==
    /\ call.op = "none"
    /\ \E v \in VinValues :
        call' = [op |-> "vin", args |-> [v |-> v], result |-> CleanVin(v)]
    /\ FnFrame

\* ------------------------------------------------------------- parse_txt
\* A text is the sequence of its lines.  A line is what parse_txt tells
\* apart: its prefix (kind) and the tokens of its content (v).
\*   title : v is the words of the title
\*   price : v is the content after "Price:", cut into the tokens "$", a
\*           group of digits, "," and any other text
\*   url   : v is <<url>>, or <<>> for an empty value
\*   attrs : the line "Attributes:"
\*   dash  : a line that starts with "-": <<flag>> has no colon,
\*           <<key, value>> has one
\*   body  : the line "BODY:"
\*   other : any other line
MaxLines == 4           \* longest text of the inputs, in lines

Line(kind, v) == [kind |-> kind, v |-> v]

ScenarioTitle == <<"2016", "Honda", "Civic", "LX">>
ScenarioPrice == <<"$", "9", ",", "900">>
ScenarioUrl == "https://x/123456789.html"
ScenarioPostId == 123456789

TitleLines == {Line("title", ScenarioTitle), Line("title", <<>>)}
PriceLines == {Line("price", ScenarioPrice), Line("price", <<"$", ",">>),
               Line("price", <<"call">>)}
UrlLines == {Line("url", <<ScenarioUrl>>), Line("url", <<>>)}
DashLines == {Line("dash", <<"clean title">>), Line("dash", <<"one owner">>),
              Line("dash", <<"misc", "a, b">>),
              Line("dash", <<"Odometer", "123,456">>)}
LineSet == TitleLines \cup PriceLines \cup UrlLines \cup DashLines
             \cup {Line("attrs", <<>>), Line("body", <<>>), Line("other", <<>>)}

RECURSIVE TextsUpTo(_)
TextsUpTo(n) ==
    IF n = 0 THEN {<<>>}
    ELSE LET shorter == TextsUpTo(n - 1)
         IN  shorter \cup {Append(t, l) : t \in shorter, l \in LineSet}

\* PRICE_LINE_RE = \$?([\d,]+): the characters the group accepts
DigitGroups == {"9", "900"}
DigitValue(tok) == IF tok = "9" THEN 9 ELSE 900
DigitWidth(tok) == IF tok = "9" THEN 1 ELSE 3
InPriceGroup(tok) == tok \in DigitGroups \/ tok = ","

RECURSIVE Pow10(_)
Pow10(n) == IF n = 0 THEN 1 ELSE 10 * Pow10(n - 1)

\* PRICE_LINE_RE.search: the first maximal run of digits and commas, as the
\* sequence of its tokens; <<>> when the pattern does not match
RECURSIVE TakeGroup(_)
TakeGroup(toks) ==
    IF toks = <<>> \/ ~InPriceGroup(Head(toks)) THEN <<>>
    ELSE <<Head(toks)>> \o TakeGroup(Tail(toks))
RECURSIVE PriceLineMatch(_)
PriceLineMatch(toks) ==
    IF toks = <<>> THEN <<>>
    ELSE IF InPriceGroup(Head(toks)) THEN TakeGroup(toks)
    ELSE PriceLineMatch(Tail(toks))

\* m.group(1).replace(",", "")
Digits(group) == SelectSeq(group, LAMBDA tok : tok \in DigitGroups)

\* int(...) of a string of digits
RECURSIVE IntOf(_, _)
IntOf(digits, acc) ==
    IF digits = <<>> THEN acc
    ELSE IntOf(Tail(digits),
               acc * Pow10(DigitWidth(Head(digits))) + DigitValue(Head(digits)))

\* line 215: int("") raises ValueError
PriceLineRaises(toks) ==
    PriceLineMatch(toks) # <<>> /\ Digits(PriceLineMatch(toks)) = <<>>
PriceLineValue(toks) ==
    IF PriceLineMatch(toks) = <<>> THEN None
    ELSE IntOf(Digits(PriceLineMatch(toks)), 0)

\* attrs_json["misc"]: absent, a list of flags, or the string of a keyed line
NoMisc == [kind |-> "absent", items |-> <<>>]
MiscList(items) == [kind |-> "list", items |-> items]
MiscString(v) == [kind |-> "str", items |-> <<v>>]

\* _ensure_misc_list, lines 194-197
EnsureList(misc) == IF misc.kind = "list" THEN misc ELSE MiscList(<<>>)

\* k.strip().lower() of the keys of the inputs
LowerKey(k) == IF k = "Odometer" THEN "odometer" ELSE k

\* the dict data while the lines are scanned
EmptyData ==
    [title |-> <<>>, price |-> None, url |-> "", misc |-> NoMisc,
     keys |-> {}, body |-> FALSE, raised |-> FALSE]

\* lines 229-235: one line of the Attributes block
AttrLine(d, v) ==
    IF Len(v) = 2
    THEN IF LowerKey(v[1]) = "misc"
         THEN [d EXCEPT !.misc = MiscString(v[2])]
         ELSE [d EXCEPT !.keys = @ \cup {LowerKey(v[1])}]
    ELSE [d EXCEPT !.misc = MiscList(Append(EnsureList(d.misc).items, v[1]))]

\* lines 207-243: the loop over the lines; inBlock is the inner loop of the
\* Attributes block
RECURSIVE Scan(_, _, _, _)
Scan(lines, i, inBlock, d) ==
    IF i > Len(lines) THEN d
    ELSE LET l == lines[i]
         IN  IF inBlock /\ l.kind = "dash"
             THEN Scan(lines, i + 1, TRUE, AttrLine(d, l.v))
             ELSE CASE l.kind = "title" ->
                         Scan(lines, i + 1, FALSE, [d EXCEPT !.title = l.v])
                    [] l.kind = "price" ->
                         IF PriceLineRaises(l.v)
                         THEN [d EXCEPT !.raised = TRUE]
                         ELSE Scan(lines, i + 1, FALSE,
                                   [d EXCEPT !.price = PriceLineValue(l.v)])
                    [] l.kind = "url" ->
                         Scan(lines, i + 1, FALSE,
                              [d EXCEPT !.url = IF l.v = <<>> THEN ""
                                                ELSE l.v[1]])
                    [] l.kind = "attrs" -> Scan(lines, i + 1, TRUE, d)
                    [] l.kind = "body" -> [d EXCEPT !.body = TRUE]
                    [] OTHER -> Scan(lines, i + 1, FALSE, d)

\* YEAR_RE = \b(19|20)\d{2}\b on the words of the inputs
IsYear(w) == w = "2016"
YearValue(w) == 2016

\* str.title() of a word of the inputs
TitleCase(w) == IF w = "LX" THEN "Lx" ELSE w

\* line 248: the first year of the title
TitleYear(title) ==
    LET years == SelectSeq(title, IsYear)
    IN  IF years = <<>> THEN None ELSE YearValue(years[1])

\* lines 249-250: the words that are left when the years are removed
Parts(title) == SelectSeq(title, LAMBDA w : ~IsYear(w))

\* line 251; "" stands for None
Make(parts) == IF parts = <<>> THEN "" ELSE TitleCase(parts[1])

\* line 252: the words of " ".join(parts[1:3]).title(); <<>> stands for None
ModelWordsFirstOnly(parts) ==
    IF Len(parts) > 1 THEN <<TitleCase(parts[2])>> ELSE <<>>
ModelWords(parts) ==
    IF Len(parts) > 1
    THEN LET last == IF Len(parts) < 3 THEN Len(parts) ELSE 3
         IN  [k \in 1..(last - 1) |-> TitleCase(parts[k + 1])]
    ELSE <<>>

\* POST_ID_RE = /([0-9]{8,12})\.html on the urls of the inputs
UrlPostId(url) == IF url = ScenarioUrl THEN ScenarioPostId ELSE None

\* parse_txt, lines 199-260
ParseTxt(lines) ==
    LET d == Scan(lines, 1, FALSE, EmptyData)
        parts == Parts(d.title)
    IN  IF d.raised
        THEN [raised |-> TRUE, data |-> d, year |-> None, make |-> "",
              model |-> <<>>, post_id |-> None]
        ELSE [raised |-> FALSE, data |-> d, year |-> TitleYear(d.title),
              make |-> Make(parts), model |-> ModelWords(parts),
              post_id |-> UrlPostId(d.url)]

ParseCall ==
    /\ call.op = "none"
    /\ \E lines \in TextsUpTo(MaxLines) :
        call' = [op |-> "parse", args |-> [lines |-> lines],
                 result |-> ParseTxt(lines)]
    /\ FnFrame

\* ------------------------------------------------------ post id resolution
\* What the resolution reads of an item: the post_id that parse_txt took
\* from the "/<digits>.html" segment of the URL line, and the leftmost run
\* of 8-12 digits of the source key, of the url and of the text (None where
\* there is none).  The four values differ so that the result names its
\* source.
IdSources ==
    [parsed : {None, 101}, name : {None, 201}, url : {None, 301},
     text : {None, 401}]

\* post_id_from_any, line 271: the strings in the order they are searched
SearchOrderUrlFirst(name, url, text) == <<url, name, text>>
SearchOrder(name, url, text) == <<name, url, text>>

\* post_id_from_any, lines 271-276: the first string with a match decides
RECURSIVE FirstFound(_)
FirstFound(found) ==
    IF found = <<>> THEN None
    ELSE IF Head(found) # None THEN Head(found)
    ELSE FirstFound(Tail(found))

\* extract_http, line 359: parsed.get("post_id") or post_id_from_any(...)
ResolveId(a) ==
    IF a.parsed # None THEN a.parsed
    ELSE FirstFound(SearchOrder(a.name, a.url, a.text))

ResolveCall ==
    /\ call.op = "none"
    /\ \E a \in IdSources :
        call' = [op |-> "resolve", args |-> a, result |-> ResolveId(a)]
    /\ FnFrame

\* ------------------------------------------------------- state round trip
\* _write_state of a set of keys of one run, then _read_state of the object
StateCall ==
    /\ call.op = "none"
    /\ \E r \in RunIds, keys \in SUBSET Items :
        LET obj == WriteState(r, keys)
        IN  call' = [op |-> "state", args |-> [run |-> r, keys |-> keys],
                     result |-> [obj |-> obj, back |-> ReadObject(obj, TRUE)]]
    /\ FnFrame

\* ------------------------------------------ line-record (jsonl) variant
\* extract_http of src/extractor_v3_jsonl.py.  It keeps no RunState: the
\* destination <PREFIX>/<run>/jsonl/<post_id>.jsonl of an item, named after
\* the item's file, is looked up in the store.  An invocation is given the
\* request (overwrite, max_files), the set of items whose destination
\* exists, and what happens to each item: "ok", a download or parse that
\* raises ("read"), a lookup that raises ("exists"), an upload that raises
\* ("upload").
V3Outcomes == {"ok", "read", "exists", "upload"}

V3Start(existing) ==
    [processed |-> 0, written |-> 0, skipped |-> 0, errors |-> 0,
     wrote |-> {}, bypassed |-> {}, failed |-> {}, existing |-> existing]

\* lines 196-198: the skip counts the item and leaves the loop body
V3ProcessedOnSkipTwice(n) == n + 2
V3ProcessedOnSkip(n) == n + 1

\* lines 203-207: the handler counts an error, line 207 counts the item
V3Raised(st, i) ==
    [st EXCEPT !.errors = @ + 1, !.processed = @ + 1,
               !.failed = @ \cup {i}]

\* lines 172-207: one pass of the loop
V3Item(st, i, ow, outcome) ==
    IF outcome = "read" THEN V3Raised(st, i)
    ELSE IF ~ow /\ outcome = "exists" THEN V3Raised(st, i)
    ELSE IF ~ow /\ i \in st.existing
    THEN [st EXCEPT !.skipped = @ + 1,
                    !.processed = V3ProcessedOnSkip(@),
                    !.bypassed = @ \cup {i}]
    ELSE IF outcome = "upload" THEN V3Raised(st, i)
    ELSE [st EXCEPT !.written = @ + 1, !.processed = @ + 1,
                    !.wrote = @ \cup {i},
                    !.existing = @ \cup {i}]

RECURSIVE V3Loop(_, _, _, _)
V3Loop(st, names, ow, outcome) ==
    IF names = <<>> THEN st
    ELSE V3Loop(V3Item(st, Head(names), ow, outcome[Head(names)]),
                Tail(names), ow, outcome)

\* lines 166-217
V3Extract(a) ==
    LET names == Truncate(SortedSeq(Items), a.maxFiles)
    IN  [names |-> names,
         summary |-> V3Loop(V3Start(a.existing), names, a.overwrite, a.outcome)]

V3Inputs ==
    [overwrite : BOOLEAN, maxFiles : 0..MaxFiles, existing : SUBSET Items,
     outcome : [Items -> V3Outcomes]]

V3Call ==
    /\ call.op = "none"
    /\ \E a \in V3Inputs :
        call' = [op |-> "v3", args |-> a, result |-> V3Extract(a)]
    /\ FnFrame

\* ------------------------------------------ single global state file
\* extract_http of src/extractor_cron.py.  One state object,
\* <PREFIX>/state/last_extracted.txt, holds the keys done for all runs.  An
\* invocation reads it, takes every listed source key not in it and, item
\* by item, writes the record ("ok"), skips for lack of a post id ("noid")
\* or has an exception ("raise").  What happens to an item is decided by
\* the item (its text, its name) and is the same each time it is attempted;
\* the read and the write of the state object succeed or fail per
\* invocation.  Invocations follow one another; the state object and what
\* the previous invocation did are kept in call.
GlobalOutcomes == {"ok", "noid", "raise"}

GlobalStart(done) == [done |-> done, processedNow |-> <<>>, written |-> 0, errors |-> 0]

\* lines 172-177: the handler adds the failed key to done
GlobalKeepOnError(done, i) == done
GlobalMarkOnError(done, i) == done \cup {i}

\* lines 147-177: one pass of the loop
GlobalItem(st, i, outcome) ==
    IF outcome = "raise"
    THEN [st EXCEPT !.errors = @ + 1,
                    !.done = GlobalMarkOnError(@, i),
                    !.processedNow = Append(@, i)]
    ELSE IF outcome = "noid"
    THEN [st EXCEPT !.done = @ \cup {i},
                    !.processedNow = Append(@, i)]
    ELSE [st EXCEPT !.written = @ + 1,
                    !.done = @ \cup {i},
                    !.processedNow = Append(@, i)]

RECURSIVE GlobalLoop(_, _, _)
GlobalLoop(st, names, outcome) ==
    IF names = <<>> THEN st
    ELSE GlobalLoop(GlobalItem(st, Head(names), outcome[Head(names)]),
                    Tail(names), outcome)

\* lines 131-184: the state object obj, the previous invocation prev; the
\* state write of line 179 is outside the try, so when it raises the
\* invocation fails and the object keeps its content
GlobalExtract(obj, a) ==
    LET done  == ReadObject(obj, a.readOK)
        names == SortedSeq(Items \ done)
        st    == GlobalLoop(GlobalStart(done), names, a.outcome)
    IN  [ok        |-> a.wOK,
         obj       |-> IF a.wOK THEN WriteState(StateDir, st.done) ELSE obj,
         before    |-> done,
         attempted |-> Items \ done,
         raised    |-> {i \in Items \ done : a.outcome[i] = "raise"},
         summary   |-> [processed |-> Len(st.processedNow),
                        written_json |-> st.written, errors |-> st.errors]]

GlobalInputs ==
    [outcome : [Items -> GlobalOutcomes], readOK : BOOLEAN, wOK : BOOLEAN]

GlobalFirst ==
    /\ call.op = "none"
    /\ env.config
    /\ \E a \in GlobalInputs :
        call' = [op |-> "global", args |-> a, n |-> 1,
                 prev |-> [ok |-> FALSE, raised |-> {}],
                 result |-> GlobalExtract(NoObject, a)]
    /\ FnFrame

GlobalAgain ==
    /\ call.op = "global"
    /\ call.n < MaxInvocations
    /\ env.config
    /\ \E a \in GlobalInputs :
        /\ a.outcome = call.args.outcome
        /\ call' = [op |-> "global", args |-> a, n |-> call.n + 1,
                    prev |-> [ok |-> call.result.ok,
                              raised |-> call.result.raised],
                    result |-> GlobalExtract(call.result.obj, a)]
    /\ FnFrame

FnNext ==
    \/ ItemCall \/ PriceCall \/ MileageCall \/ VinCall \/ ParseCall
    \/ ResolveCall \/ StateCall \/ V3Call \/ GlobalFirst \/ GlobalAgain

FnSpec == FnInit /\ [][FnNext]_vars

\* ------------------------------------------------------- item body claims
\* the item body was applied and got as far as the merge
MergeReached ==
    /\ call.op = "item"
    /\ call.result.cause \in {"none", "attrs", "schema", "upload"}

ItemWritten == call.op = "item" /\ call.result.kind = "written"

\* the canonical schema bounds, on a field map
InBounds(m) ==
    /\ Get(m, "post_id") # None
    /\ Get(m, "price") = None \/ Get(m, "price") >= 0
    /\ Get(m, "mileage") = None \/ Get(m, "mileage") >= 0
    /\ Get(m, "year") = None \/ Get(m, "year") \in 1950..2100

\* the post id resolved deterministically for the item
ResolvedId(a) ==
    IF Get(a.parsed, "post_id") # None THEN Get(a.parsed, "post_id") ELSE a.anyId

\* --------------------------------------------------------------------- C13
\* C13: every written record satisfies the schema bounds and holds the
\* merged values unchanged; a merged field map that violates a bound makes
\* the item fail and nothing is written for it.
C13_WrittenRecordsInBounds ==
    /\ ItemWritten =>
        /\ InBounds(call.result.rec)
        /\ \A k \in DOMAIN call.result.merged :
            call.result.rec[k] = call.result.merged[k]
    /\ (MergeReached /\ call.result.cause # "attrs"
           /\ ~InBounds(call.result.merged)) =>
        /\ call.result.kind = "error"
        /\ call.result.cause = "schema"
        /\ DOMAIN call.result.rec = {}

C13_Witness ==
    /\ MergeReached
    /\ call.args.upOK
    /\ Get(call.result.merged, "mileage") = -1
    /\ call.result.kind = "error"
    /\ DOMAIN call.result.rec = {}

\* --------------------------------------------------------------------- C14
\* C14: when the enrichment call fails -- it raises, or its response is
\* malformed or violates the response schema -- the item ends as it would
\* with an empty enriched map, and is not an error for that reason.
C14_EnrichFailureDegrades ==
    (call.op = "item" /\ call.args.enrich.kind \in {"raise", "nonobject"}) =>
        /\ call.result.cause # "enrichment"
        /\ call.result =
             ProcessOne([call.args EXCEPT
                            !.enrich = [kind |-> "object", map |-> EmptyMap]])

\* --------------------------------------------------------------------- C15
\* C15: after the merge loop every field other than post_id and url holds
\* the enriched value when the enriched map has the field with a value that
\* is not null, and the deterministic value (or no value) otherwise.
C15_MergePrefersEnriched ==
    MergeReached =>
        LET raw    == RawOf(call.args.enrich)
            parsed == call.args.parsed
            loop   == call.result.loop
        IN  \A k \in Keys \ {"post_id", "url"} :
                IF k \in DOMAIN raw /\ raw[k] # NullOf(k)
                THEN k \in DOMAIN loop /\ loop[k] = raw[k]
                ELSE IF k \in DOMAIN parsed
                THEN k \in DOMAIN loop /\ loop[k] = parsed[k]
                ELSE k \notin DOMAIN loop

C15_Witness ==
    /\ MergeReached
    /\ Get(call.args.parsed, "price") = 9900
    /\ "price" \in DOMAIN RawOf(call.args.enrich)
    /\ call.result.loop["price"] = 8500
    /\ call.result.loop["year"] = 1900
    /\ "year" \notin DOMAIN RawOf(call.args.enrich)

\* --------------------------------------------------------------------- C16
\* C16: the post_id of a written record and of its destination key is the
\* post id resolved deterministically for the item, whatever post_id the
\* enrichment returned.
C16_PostIdIsResolved ==
    ItemWritten =>
        /\ ResolvedId(call.args) # None
        /\ call.result.rec["post_id"] = ResolvedId(call.args)
        /\ call.result.key = ResolvedId(call.args)

C16_Witness ==
    /\ ItemWritten
    /\ Get(RawOf(call.args.enrich), "post_id") = 999
    /\ call.result.rec["post_id"] = 102
    /\ call.result.key = 102

\* --------------------------------------------------------------------- C17
\* C17 as stated: the merged url is the deterministic url whenever the
\* deterministic extractor found one; the enriched url is used only when
\* the deterministic url is absent.
C17_AsStated ==
    MergeReached =>
        LET det == Get(call.args.parsed, "url")
            enr == Get(RawOf(call.args.enrich), "url")
            url == Get(call.result.merged, "url")
        IN  /\ UrlTruthy(det) => url = det
            /\ (url = enr /\ url # det) => ~UrlTruthy(det)

\* C17 amended: the merged url is the enriched url whenever the enrichment
\* returned a url that is neither null nor empty; the deterministic url is
\* used otherwise.
C17_UrlPrefersEnriched ==
    MergeReached =>
        LET det == Get(call.args.parsed, "url")
            enr == Get(RawOf(call.args.enrich), "url")
            url == Get(call.result.merged, "url")
        IN  IF UrlTruthy(enr) THEN url = enr ELSE url = det

C17_Witness ==
    /\ ItemWritten
    /\ Get(call.args.parsed, "url") = DetUrl
    /\ Get(RawOf(call.args.enrich), "url") = EnrUrl
    /\ call.result.rec["url"] = EnrUrl

\* --------------------------------------------------------------------- C18
\* C18: in every written record attrs_json is a mapping whose misc is a
\* sequence, for every combination of deterministic and enriched
\* attrs_json; a string misc is coerced without raising.
C18_AttrsMiscIsSequence ==
    /\ ItemWritten =>
        /\ call.result.rec["attrs_json"].kind = "map"
        /\ call.result.rec["attrs_json"].misc \in {"list", "empty"}
    /\ (MergeReached /\ Get(call.result.loop, "attrs_json").kind = "map") =>
        call.result.cause # "attrs"

C18_Witness ==
    /\ ItemWritten
    /\ call.args.parsed["attrs_json"].misc = "list"
    /\ Get(RawOf(call.args.enrich), "attrs_json").misc = "str"
    /\ Get(RawOf(call.args.enrich), "attrs_json").kind = "map"
    /\ call.result.rec["attrs_json"].misc = "empty"

\* --------------------------------------------------------------------- C19
\* C19: price_fallback returns null or an integer n with 500 <= n <= 150000,
\* for every title and body.
C19_PriceFallbackInBand ==
    call.op = "price" =>
        \/ call.result = None
        \/ (500 <= call.result /\ call.result <= 150000)

C19_Witness ==
    /\ call.op = "price"
    /\ call.args.title = <<150001>>
    /\ call.args.body = <<499, 9900>>
    /\ call.result = None

\* --------------------------------------------------------------------- C20
LabelsWithDigits(text) == {i \in DOMAIN text : text[i].kind = "label"}
Labels(text) == {i \in DOMAIN text : text[i].kind \in {"label", "labelcomma"}}

\* what stages (2) and (3) give, in their priority
AfterLabel(text) ==
    IF \E i \in DOMAIN text : text[i].kind = "k"
    THEN 1000 * text[SetMin({i \in DOMAIN text : text[i].kind = "k"})].val
    ELSE IF \E i \in DOMAIN text : text[i].kind = "plain"
    THEN text[SetMin({i \in DOMAIN text : text[i].kind = "plain"})].val
    ELSE None

\* C20 as stated: whenever the text holds a label with digits the result is
\* the labelled value, wherever the other phrases stand; otherwise the
\* "k" shorthand wins over the plain number.
C20_AsStated ==
    call.op = "mileage" =>
        LET text == call.args.text
        IN  IF LabelsWithDigits(text) # {}
            THEN call.result = text[SetMin(LabelsWithDigits(text))].val
            ELSE call.result = AfterLabel(text)

\* C20 amended: the result is the labelled value whenever the leftmost label
\* occurrence is followed by digits; when the leftmost label occurrence
\* captures no digit, or there is no label, the "k" shorthand and then the
\* plain number decide, even if a label with digits stands later in the text.
C20_FirstLabelDecides ==
    call.op = "mileage" =>
        LET text == call.args.text
        IN  IF Labels(text) # {} /\ text[SetMin(Labels(text))].kind = "label"
            THEN call.result = text[SetMin(Labels(text))].val
            ELSE call.result = AfterLabel(text)

C20_Witness ==
    /\ call.op = "mileage"
    /\ Len(call.args.text) = 3
    /\ call.args.text[1].kind = "k"
    /\ call.args.text[2].kind = "plain"
    /\ call.args.text[3].kind = "label"
    /\ call.result = 50000

\* C21: normalising a VIN a second time changes nothing: the result of
\* _clean_vin, normalised again, is itself, for strings, "" and null.
C21_CleanVinIdempotent ==
    call.op = "vin" => CleanVin(call.result) = call.result

\* a string with both removable characters and a lower-case letter was
\* normalised to a shorter, different string
C21_Witness ==
    /\ call.op = "vin"
    /\ ~call.args.v.isNull
    /\ \E k \in 1..Len(call.args.v.chars) : call.args.v.chars[k] = "-"
    /\ \E k \in 1..Len(call.args.v.chars) : call.args.v.chars[k] = " "
    /\ \E k \in 1..Len(call.args.v.chars) : call.args.v.chars[k] = "a"
    /\ call.result = VinStr(<<"A">>)

\* the text of scenario A
ScenarioA ==
    <<Line("title", ScenarioTitle), Line("price", ScenarioPrice),
      Line("url", <<ScenarioUrl>>)>>

\* C22 as stated: scenario A gives post_id "123456789", year 2016, make
\* "Honda", model "Civic" and price 9900
C22_AsStated ==
    (call.op = "parse" /\ call.args.lines = ScenarioA) =>
        /\ ~call.result.raised
        /\ call.result.post_id = ScenarioPostId
        /\ call.result.year = 2016
        /\ call.result.make = "Honda"
        /\ call.result.model = <<"Civic">>
        /\ call.result.data.price = 9900

\* C22: scenario A gives post_id "123456789", year 2016, make "Honda",
\* price 9900 and the model "Civic Lx": the two words after the make, in
\* title case, the trim among them
C22_ScenarioA ==
    (call.op = "parse" /\ call.args.lines = ScenarioA) =>
        /\ ~call.result.raised
        /\ call.result.post_id = ScenarioPostId
        /\ call.result.year = 2016
        /\ call.result.make = "Honda"
        /\ call.result.model = <<"Civic", "Lx">>
        /\ call.result.data.price = 9900

C22_Witness ==
    /\ call.op = "parse"
    /\ call.args.lines = ScenarioA
    /\ call.result.model = <<"Civic", "Lx">>
    /\ call.result.data.price = 9900

\* the flags of the bare lines of an Attributes block that is scanned from
\* its header to the end of the text, in the order of the lines
RECURSIVE BareFlags(_)
BareFlags(lines) ==
    IF lines = <<>> THEN <<>>
    ELSE IF Len(Head(lines).v) = 1
         THEN <<Head(lines).v[1]>> \o BareFlags(Tail(lines))
         ELSE BareFlags(Tail(lines))

\* a text that is one Attributes block: the header, then dash lines only
OneBlock(lines) ==
    /\ Len(lines) >= 2
    /\ lines[1].kind = "attrs"
    /\ \A k \in 2..Len(lines) : lines[k].kind = "dash"

\* C29: after every prefix of an Attributes block, misc is absent or a
\* sequence, and a sequence holds every bare flag seen so far, in order --
\* also when a keyed line has the key misc.
C29_MiscStaysSequence ==
    (call.op = "parse" /\ OneBlock(call.args.lines)) =>
        /\ call.result.data.misc.kind \in {"absent", "list"}
        /\ call.result.data.misc.kind = "absent"
             => BareFlags(Tail(call.args.lines)) = <<>>
        /\ call.result.data.misc.kind = "list"
             => call.result.data.misc.items = BareFlags(Tail(call.args.lines))

\* C30: parse_txt returns a field map for every text; it never raises.
C30_ParseNeverRaises ==
    call.op = "parse" => ~call.result.raised

\* C25: an invocation whose request omits run_id works on a scraper run,
\* never on the state prefix.
C25_DefaultIsScraperRun ==
    \A p \in Procs : inv[p].defaulted => inv[p].run \in RunIds

\* C26: when a non-overlapping invocation has returned its summary, the
\* persisted RunState of its run holds every key it held when the
\* invocation started -- whatever overwrite and max_files were and whether
\* or not the state read succeeded.
C26_StateOnlyGrows ==
    \A p \in Procs :
        Summarised(p) => inv[p].before \subseteq Persisted(inv[p].run)

\* an item whose item name, url and text hold no run of 8-12 digits
DigitFree(i) ==
    ItemNameDigits(i) = None /\ UrlDigits(i) = None /\ TextDigits(i) = None

\* C27: no record has the digits of its run id as post_id, and no item
\* without a digit run in item name, url and text is written (so no two of
\* them share a destination).
C27_FallbackIgnoresRunId ==
    /\ \A o \in out : RunDigits(o.run) = None \/ o.post_id # RunDigits(o.run)
    /\ \A w \in written : ~DigitFree(w[2])

\* C23: when two invocations overlap, the persisted RunState of a run is
\* the set of one of the invocations that summarised on it (the one whose
\* state write landed last), not the union of both, and a destination
\* holds one record, the one uploaded last.
C23_LastWriterWins ==
    /\ \A r \in RunNames :
        stateObj[r].exists =>
            \E p \in Procs : /\ Summarised(p)
                             /\ inv[p].run = r
                             /\ Persisted(r) = inv[p].pstate
    /\ \A o1, o2 \in out :
        (o1.run = o2.run /\ o1.post_id = o2.post_id) => o1 = o2

\* both invocations read the same initial RunState (empty), both uploaded
\* the same item, every state read and write succeeded, and the persisted
\* RunState is the set of p and lacks a key that q wrote and marked
C23_Witness ==
    \E p, q \in Procs :
        /\ p # q
        /\ Summarised(p) /\ Summarised(q)
        /\ inv[p].run = inv[q].run
        /\ hist = "clean"
        /\ inv[p].before = {} /\ inv[q].before = {}
        /\ inv[p].loaded = {} /\ inv[q].loaded = {}
        /\ inv[p].wrote \cap inv[q].wrote # {}
        /\ twice
        /\ stateObj[inv[p].run].exists
        /\ Persisted(inv[p].run) = inv[p].pstate
        /\ \E k \in inv[q].wrote \cap inv[q].pstate :
               k \notin Persisted(inv[p].run)

\* the repeated request works on run r
Targets(r) == inv[Solo].pc # "idle" /\ inv[Solo].run = r

\* item i of run r is processed successfully whenever it is attempted: it
\* has a post id and its deterministic fields pass the validation
Processable(r, i) ==
    ResolvePostId(r, i) # None /\ Valid(Merged(r, i, EmptyRaw))

\* C24: with max_files = k > 0 on every invocation, every item that is
\* processed successfully when attempted is eventually written, also when
\* other items of the run fail on every attempt.
C24_NoStarvation ==
    \A r \in RunIds, i \in Items :
        (Targets(r) /\ inv[Solo].maxFiles > 0 /\ Processable(r, i))
            ~> (<<r, i>> \in written)

\* C28: without a max_files cap every item of the run is eventually in the
\* persisted RunState and stays there, and from then on the invocations
\* attempt nothing.
C28_AllEventuallyTerminal ==
    \A r \in RunIds :
        (Targets(r) /\ inv[Solo].maxFiles = 0)
            ~> [](Items \subseteq Persisted(r) /\ inv[Solo].cands = <<>>)

\* --------------------------------------------------------------------- C31
\* the first monetary candidate of a text whose value lies in the band
FirstInBand(s) ==
    LET I == {i \in DOMAIN s : IsPriceMatch(s[i]) /\ InBand(s[i])}
    IN  IF I = {} THEN None ELSE s[SetMin(I)]

\* C31: price_fallback returns the first in-band candidate of the title
\* when the title has one (earlier out-of-band candidates are passed over),
\* otherwise the first in-band candidate of the body, otherwise null.
C31_FirstInBandCandidate ==
    call.op = "price" =>
        call.result =
            IF FirstInBand(call.args.title) # None
            THEN FirstInBand(call.args.title)
            ELSE FirstInBand(call.args.body)

\* --------------------------------------------------------------------- C32
\* C32: a written record whose merged price was null after the merge loop
\* has the price of the price fallback, and one whose merged mileage was
\* null has the mileage that the text states under an explicit label.
C32_BothFallbacksRun ==
    ItemWritten =>
        /\ (Get(call.result.loop, "price") = None /\ call.args.pf # None)
              => call.result.rec["price"] = call.args.pf
        /\ (Get(call.result.loop, "mileage") = None /\ call.args.mf # None)
              => call.result.rec["mileage"] = call.args.mf

\* --------------------------------------------------------------------- C33
\* C33: the post id is the id of the URL's .html segment when there is one;
\* otherwise the digit run of the source key; without one, that of the url;
\* without one, that of the text; null when none has one.
C33_ResolutionOrder ==
    call.op = "resolve" =>
        LET a == call.args IN
        /\ a.parsed # None => call.result = a.parsed
        /\ (a.parsed = None /\ a.name # None) => call.result = a.name
        /\ (a.parsed = None /\ a.name = None /\ a.url # None)
              => call.result = a.url
        /\ (a.parsed = None /\ a.name = None /\ a.url = None)
              => call.result = a.text

\* no .html id and no digits in the key: the url decides although the text
\* has digits too
C33_Witness ==
    /\ call.op = "resolve"
    /\ call.args.parsed = None
    /\ call.args.name = None
    /\ call.args.url = 301
    /\ call.args.text = 401
    /\ call.result = 301

\* --------------------------------------------------------------------- C34
\* C34: an invocation that reaches its loop has read the RunState once,
\* before its first item; it writes the RunState at most once, and only
\* after its last item; whether or not that write succeeds it returns its
\* summary with status 200 and ok; and after a failed write the persisted
\* RunState of the run is what it was when the invocation started.
C34_StateReadOnceWrittenOnce ==
    \A p \in Procs :
        LET v == inv[p] IN
        /\ v.pc = "loop" => (v.stateReads = 1 /\ v.stateWrites = 0)
        /\ v.stateWrites <= 1
        /\ v.stateWrites = 1 =>
            /\ v.stateReads = 1
            /\ v.pc = "done"
            /\ v.idx > Len(v.cands)
            /\ v.result = [status |-> 200, ok |-> TRUE, error |-> "none"]
            /\ v.written = Cardinality(v.wrote)
            /\ v.errors = Cardinality(v.failed)
            /\ ~v.stateWritten => Persisted(v.run) = v.before
            /\ v.stateWritten => Persisted(v.run) = v.pstate

\* an invocation uploaded an item, its state write failed, and it returned
\* its summary all the same
C34_Witness ==
    \E p \in Procs :
        /\ inv[p].stateWrites = 1
        /\ ~inv[p].stateWritten
        /\ inv[p].wrote # {}
        /\ inv[p].pstate # inv[p].before
        /\ Summarised(p)

C35_WitnessEmpty ==
    /\ call.op = "state"
    /\ call.args.keys = {}
    /\ call.result.obj.exists
    /\ call.result.back = {}

\* --------------------------------------------------------------------- C36
\* C36: in the jsonl variant an item whose destination exists is, with
\* overwrite=false, not written and counted once in skipped_existing and
\* once in processed_txt (unless reading it or the lookup raised); with
\* overwrite=true it is written again unless it raised.  In every summary
\* processed_txt = written_jsonl + skipped_existing + errors = number of
\* candidates.
C36_SkipExistingCounts ==
    call.op = "v3" =>
        LET a  == call.args
            st == call.result.summary
            cs == Range(call.result.names)
        IN  /\ st.processed = st.written + st.skipped + st.errors
            /\ st.processed = Len(call.result.names)
            /\ st.skipped = Cardinality(st.bypassed)
            /\ st.written = Cardinality(st.wrote)
            /\ st.errors = Cardinality(st.failed)
            /\ st.wrote \cup st.bypassed \cup st.failed = cs
            /\ st.wrote \cap st.bypassed = {}
            /\ st.wrote \cap st.failed = {}
            /\ st.bypassed \cap st.failed = {}
            /\ \A i \in cs :
                /\ (~a.overwrite /\ i \in a.existing /\ a.outcome[i] = "ok")
                      => (i \in st.bypassed /\ i \notin st.wrote)
                /\ (a.overwrite /\ i \in a.existing /\ a.outcome[i] = "ok")
                      => i \in st.wrote

\* an invocation with overwrite=false skipped an existing destination,
\* wrote a missing one and had an error
C36_Witness ==
    /\ call.op = "v3"
    /\ ~call.args.overwrite
    /\ call.result.summary.skipped >= 1
    /\ call.result.summary.written >= 1
    /\ call.result.summary.errors >= 1
    /\ call.result.summary.processed = Len(call.result.names)

\* --------------------------------------------------------------------- C37
\* C37 as stated: in the single-global-state-file variant an item whose
\* processing raised in one invocation is not recorded as processed and is
\* attempted again by the next invocation.
C37_AsStated ==
    (call.op = "global" /\ call.n >= 2) =>
        /\ call.prev.raised \cap call.result.before = {}
        /\ call.prev.raised \subseteq call.result.attempted

\* C37: in the single-global-state-file variant an item whose processing
\* raised is recorded as processed: when the invocation wrote its state and
\* the next one reads it, the key is in the state and the item is not
\* attempted again; it is attempted again only when that state write
\* failed or the state object cannot be read.
C37_FailedItemIsRecorded ==
    /\ (call.op = "global" /\ call.result.ok) =>
          /\ call.result.raised \subseteq LinesToSet(call.result.obj.lines)
          /\ call.result.summary.processed
                = Cardinality(call.result.attempted)
    /\ (call.op = "global" /\ call.n >= 2 /\ call.prev.ok /\ call.args.readOK) =>
          /\ call.prev.raised \subseteq call.result.before
          /\ call.prev.raised \cap call.result.attempted = {}
    /\ (call.op = "global" /\ call.n >= 2 /\ call.prev.raised # {}
          /\ call.prev.raised \subseteq call.result.attempted) =>
          (~call.prev.ok \/ ~call.args.readOK)

\* an item raised in an invocation that wrote its state, and the next
\* invocation read the state and left the item out
C37_Witness ==
    /\ call.op = "global"
    /\ call.n >= 2
    /\ call.prev.ok
    /\ call.args.readOK
    /\ call.prev.raised # {}
    /\ call.prev.raised \cap call.result.attempted = {}
    /\ call.prev.raised \subseteq call.result.before

\* --------------------------------------------------------------------- C38
\* C38: however two invocations on one run interleave from an empty state,
\* every key of the persisted RunState is the key of an item that one of
\* the invocations on that run wrote or skipped for lack of a post id; the
\* key of an item that only failed, or that no invocation attempted, is
\* not in it.
C38_PersistedKeysWereHandled ==
    \A r \in RunNames : \A i \in Persisted(r) :
        /\ \E p \in Procs :
              /\ inv[p].pc = "done"
              /\ inv[p].run = r
              /\ i \in inv[p].wrote \cup inv[p].skipped
        /\ \E p \in Procs :
              inv[p].run = r /\ i \in Range(inv[p].cands)
                             /\ i \notin inv[p].failed

\* two invocations on one run both read the empty state and both marked
\* keys (so they overlapped); one had a failed item, an item was attempted
\* by neither, and the persisted RunState holds neither of them
C38_Witness ==
    \E p, q \in Procs :
        /\ p # q
        /\ Summarised(p) /\ Summarised(q)
        /\ inv[p].run = inv[q].run
        /\ hist = "clean"
        /\ inv[p].before = {} /\ inv[q].before = {}
        /\ inv[p].pstate # {} /\ inv[q].pstate # {}
        /\ Persisted(inv[p].run) # {}
        /\ \E i \in inv[p].failed :
              i \notin inv[q].wrote /\ i \notin Persisted(inv[p].run)
        /\ \E j \in Items :
              /\ j \notin Range(inv[p].cands) \cup Range(inv[q].cands)
              /\ j \notin Persisted(inv[p].run)

\* --------------------------------------------------------------------- C39
\* the structured records under <PREFIX>/<r>/structured/
OutputsOf(r) == {o \in out : o.run = r}

\* C39: a step changes the RunState object or the structured records of a
\* run only while an invocation for that run is in its loop or at its state
\* write; the state objects and records of every other run, and the source
\* items, stay as they are.
C39_OnlyOwnRunChanges ==
    [][/\ runs' = runs
       /\ \A r \in RunNames :
            (stateObj'[r] # stateObj[r]
                \/ {o \in out' : o.run = r} # OutputsOf(r))
              => \E p \in Procs : inv[p].pc = "loop" /\ inv[p].run = r]_vars

\* an invocation wrote records and the state of one run after another
\* invocation had done so for a different run, whose state and records are
\* in the store
C39_Witness ==
    \E p \in Procs :
        /\ Summarised(p)
        /\ inv[p].wrote # {}
        /\ stateObj[inv[p].run].exists
        /\ Persisted(inv[p].run) = inv[p].pstate
        /\ OutputsOf(inv[p].run) # {}
        /\ inv[p].prev.summary
        /\ inv[p].prev.run # inv[p].run
        /\ inv[p].prev.run \in RunIds
        /\ stateObj[inv[p].prev.run].exists
        /\ Persisted(inv[p].prev.run) # {}
        /\ OutputsOf(inv[p].prev.run) # {}

\* --------------------------------------------------------------------- C40
\* the candidates the invocation of p has attempted so far
Attempted(p) == {inv[p].cands[k] : k \in 1..(inv[p].idx - 1)}

\* C40: throughout an invocation, and in its summary, processed + errors is
\* the number of candidates attempted, written_json <= processed, and
\* processed - written_json is the number of items skipped for lack of a
\* post id; every attempted item is in exactly one of written, skipped and
\* failed.
C40_CountersConserved ==
    \A p \in Procs :
        /\ inv[p].idx <= Len(inv[p].cands) + 1
        /\ inv[p].processed + inv[p].errors = inv[p].idx - 1
        /\ inv[p].written <= inv[p].processed
        /\ inv[p].processed - inv[p].written = Cardinality(inv[p].skipped)
        /\ inv[p].wrote \cup inv[p].skipped \cup inv[p].failed = Attempted(p)
        /\ Cardinality(inv[p].wrote) + Cardinality(inv[p].skipped)
              + Cardinality(inv[p].failed) = Cardinality(Attempted(p))
        /\ Summarised(p) =>
              inv[p].processed + inv[p].errors = Len(inv[p].cands)

\* a summarised invocation wrote an item, skipped one and failed on one
C40_Witness ==
    \E p \in Procs :
        /\ Summarised(p)
        /\ inv[p].wrote # {}
        /\ inv[p].skipped # {}
        /\ inv[p].failed # {}
        /\ inv[p].processed + inv[p].errors = Len(inv[p].cands)
        /\ inv[p].processed - inv[p].written = Cardinality(inv[p].skipped)

====
